---- MODULE Spec2Model ----
(***************************************************************************)
(* The relay server of faceterm (asciichat-server/main.go): the client     *)
(* registry guarded by Server.mu, the admission policy of handleWS/add,    *)
(* the non-blocking broadcast, and the reader / writer goroutines of each  *)
(* admitted client.                                                        *)
(*                                                                         *)
(* One connection attempt = one run of handleWS = one *Client.  A client   *)
(* is identified by the number of its connection.  A payload is the pair   *)
(* <<origin, k>>: the k-th frame that the peer behind connection `origin`  *)
(* sent; the server never looks inside a payload.                          *)
(***************************************************************************)
EXTENDS Integers, Sequences, FiniteSets, TLC

\* ---------------------------------------------------------------- bounds
\* number of connection attempts (runs of handleWS)
NConns == 3
\* number of frames the peers send, over all connections
MaxReads == 1
\* total number of frames the peers' sockets accept from the server
MaxWrites == 1
\* number of failures of the network: handshakes and reads that fail, and
\* writes that fail on a connection the server has not closed
MaxErrs == 1
\* number of calls of remove for one client in the test of the registry
MaxRemoves == 2

\* ------------------------------------------------------ program constants
maxClients == 2
\* capacity of Client.send: make(chan []byte, 16)
QueueCap == 16

Conns == 1 .. NConns

\* the text frame of the rejection, []byte("room full (2 clients max)"):
\* a payload that originates from the server (origin 0), not from a peer
RoomFull == <<0, 0>>

\* the local `msg` of reader when it holds nothing
NoMsg == <<>>

NoPanic == ""

VARIABLES
    clients,     \* Server.clients: the set of registered *Client
    mu,          \* Server.mu: 0 when free, else the connection whose goroutine holds it
    pc,          \* per connection: where its handleWS/reader goroutine is
    msg,         \* per connection: the frame reader has read and not yet broadcast
    send,        \* per connection: the buffered content of Client.send
    nclose,      \* per connection: how many times close(c.send) has completed
    wpc,         \* per connection: where its writer goroutine is
    wmsg,        \* per connection: the frame writer took from send and is writing
    connOut,     \* per connection: the payloads handed to conn.WriteMessage, in order
    connClosed,  \* per connection: conn.Close() has been called by the server
    nerr,        \* number of failures of the network so far
    frames,      \* number of frames the peers have still to send
    nwrite,      \* number of calls of WriteMessage the peers' sockets have accepted
    nread,       \* per connection: number of frames ReadMessage has returned
    dropped,     \* per connection: the payloads broadcast dropped because its queue was full
    removeCalls, \* per connection: number of calls of Server.remove for its client
    arrivedFull, \* per connection: two clients were registered when its Upgrade returned
    panicked     \* the message of the panic that ended the process, or NoPanic

vars == <<clients, mu, pc, msg, send, nclose, wpc, wmsg, connOut, connClosed,
          nread, nwrite, frames, dropped, removeCalls, arrivedFull, nerr, panicked>>

\* ---------------------------------------------------------------- helpers
\* len(s.clients) >= maxClients                          (add, line 38)
IsFull_Off == Cardinality(clients) > maxClients
IsFull == Cardinality(clients) >= maxClients

\* for c := range s.clients { if c != sender { ... } }   (broadcast, 63-64)
Recipients_NoSenderCheck(sender) == clients
Recipients(sender) == {c \in clients : c # sender}

\* select { case c.send <- m: default: }  on an open channel: does the
\* buffered send succeed?                                 (broadcast, 65-69)
CanSend_Unbounded(q) == TRUE
CanSend(q) == Len(q) < QueueCap

\* the queue after the non-blocking send
TrySend(q, m) == IF CanSend(q) THEN Append(q, m) ELSE q

\* the select has a default case: the send never waits for room in the queue
SendReady_Blocking(q) == Len(q) < QueueCap
SendReady(q) == TRUE

\* close(c.send): the number of completed closes of the channel   (remove, 53)
CloseSend_Forgotten(n) == n
CloseSend(n) == n + 1

\* for msg := range c.send: the frame a receive takes           (writer, 121)
RecvFrame_Last(q) == q[Len(q)]
RecvFrame(q) == Head(q)

\* delete(s.clients, c)                                   (remove, 52)
Deleted_Noop(c) == clients
Deleted_All(c) == {}
Deleted(c) == clients \ {c}

\* ------------------------------------------------------------------- Init
\* NewServer(): an empty registry; no request has arrived yet
Init ==
    /\ clients = {}
    /\ mu = 0
    /\ pc = [c \in Conns |-> "start"]
    /\ msg = [c \in Conns |-> NoMsg]
    /\ send = [c \in Conns |-> <<>>]
    /\ nclose = [c \in Conns |-> 0]
    /\ wpc = [c \in Conns |-> "none"]
    /\ wmsg = [c \in Conns |-> NoMsg]
    /\ connOut = [c \in Conns |-> <<>>]
    /\ connClosed = [c \in Conns |-> FALSE]
    /\ nread = [c \in Conns |-> 0]
    /\ nwrite = 0
    /\ frames = MaxReads
    /\ dropped = [c \in Conns |-> {}]
    /\ removeCalls = [c \in Conns |-> 0]
    /\ arrivedFull = [c \in Conns |-> FALSE]
    /\ nerr = 0
    /\ panicked = NoPanic

\* -------------------------------------------------------------- handleWS
\* Connections are numbered in the order in which their requests arrive.

\* upgrader.Upgrade succeeds; client := &Client{conn, make(chan []byte, 16)};
\* the goroutine goes on to s.add(client)
Upgrade(c) ==
    /\ panicked = NoPanic
    /\ pc[c] = "start"
    /\ \A d \in Conns : d < c => pc[d] # "start"
    /\ pc' = [pc EXCEPT ![c] = "add_lock"]
    /\ arrivedFull' = [arrivedFull EXCEPT ![c] = (Cardinality(clients) >= 2)]
    /\ UNCHANGED <<nerr, clients, mu, msg, send, nclose, wpc, wmsg, connOut, connClosed,
                   nread, nwrite, frames, dropped, removeCalls, panicked>>

\* upgrader.Upgrade fails: handleWS returns, no client is made
UpgradeFail(c) ==
    /\ panicked = NoPanic
    /\ nerr < MaxErrs
    /\ nerr' = nerr + 1
    /\ pc[c] = "start"
    /\ \A d \in Conns : d < c => pc[d] # "start"
    /\ pc' = [pc EXCEPT ![c] = "dropped"]
    /\ UNCHANGED <<arrivedFull, clients, mu, msg, send, nclose, wpc, wmsg, connOut, connClosed,
                   nread, nwrite, frames, dropped, removeCalls, panicked>>

\* an add that enters its body without waiting for the lock
AddLock_NoWait(c) ==
    /\ panicked = NoPanic
    /\ pc[c] = "add_lock"
    /\ mu' = c
    /\ pc' = [pc EXCEPT ![c] = "add_cs"]
    /\ UNCHANGED <<nerr, arrivedFull, clients, msg, send, nclose, wpc, wmsg, connOut, connClosed,
                   nread, nwrite, frames, dropped, removeCalls, panicked>>

\* add: s.mu.Lock()
AddLock(c) ==
    /\ panicked = NoPanic
    /\ pc[c] = "add_lock"
    /\ mu = 0
    /\ mu' = c
    /\ pc' = [pc EXCEPT ![c] = "add_cs"]
    /\ UNCHANGED <<nerr, arrivedFull, clients, msg, send, nclose, wpc, wmsg, connOut, connClosed,
                   nread, nwrite, frames, dropped, removeCalls, panicked>>

\* an add that inserts the client before it tests the size of the registry
AddBody_InsertFirst(c) ==
    /\ panicked = NoPanic
    /\ pc[c] = "add_cs"
    /\ mu = c
    /\ mu' = 0
    /\ clients' = clients \cup {c}
    /\ IF IsFull
         THEN /\ pc' = [pc EXCEPT ![c] = "rej_write"]
              /\ UNCHANGED wpc
         ELSE /\ pc' = [pc EXCEPT ![c] = "read"]
              /\ wpc' = [wpc EXCEPT ![c] = "recv"]
    /\ UNCHANGED <<nerr, arrivedFull, msg, send, nclose, wmsg, connOut, connClosed,
                   nread, nwrite, frames, dropped, removeCalls, panicked>>

\* add: the body under the lock and the deferred Unlock.  On false handleWS
\* goes to the rejection; on true it starts writer (go s.writer(client)) and
\* enters reader.
AddBody(c) ==
    /\ panicked = NoPanic
    /\ pc[c] = "add_cs"
    /\ mu = c
    /\ mu' = 0
    /\ IF IsFull
         THEN /\ pc' = [pc EXCEPT ![c] = "rej_write"]
              /\ UNCHANGED <<clients, wpc>>
         ELSE /\ clients' = clients \cup {c}
              /\ pc' = [pc EXCEPT ![c] = "read"]
              /\ wpc' = [wpc EXCEPT ![c] = "recv"]
    /\ UNCHANGED <<nerr, arrivedFull, msg, send, nclose, wmsg, connOut, connClosed,
                   nread, nwrite, frames, dropped, removeCalls, panicked>>

\* conn.WriteMessage(websocket.TextMessage, []byte("room full (2 clients max)")),
\* its error ignored
RejectWrite(c) ==
    /\ panicked = NoPanic
    /\ pc[c] = "rej_write"
    /\ connOut' = [connOut EXCEPT ![c] = Append(@, RoomFull)]
    /\ pc' = [pc EXCEPT ![c] = "rej_close"]
    /\ UNCHANGED <<nerr, arrivedFull, clients, mu, msg, send, nclose, wpc, wmsg, connClosed,
                   nread, nwrite, frames, dropped, removeCalls, panicked>>

\* conn.Close(); return
RejectClose(c) ==
    /\ panicked = NoPanic
    /\ pc[c] = "rej_close"
    /\ connClosed' = [connClosed EXCEPT ![c] = TRUE]
    /\ pc' = [pc EXCEPT ![c] = "rejected"]
    /\ UNCHANGED <<nerr, arrivedFull, clients, mu, msg, send, nclose, wpc, wmsg, connOut,
                   nread, nwrite, frames, dropped, removeCalls, panicked>>

\* ---------------------------------------------------------------- reader
\* c.conn.ReadMessage() returns the peer's next frame; reader goes on to
\* s.broadcast(c, msg)
ReadOk(c) ==
    /\ panicked = NoPanic
    /\ pc[c] = "read"
    /\ ~connClosed[c]
    /\ frames > 0
    /\ frames' = frames - 1
    /\ nread' = [nread EXCEPT ![c] = @ + 1]
    /\ msg' = [msg EXCEPT ![c] = <<c, nread[c] + 1>>]
    /\ pc' = [pc EXCEPT ![c] = "bc_lock"]
    /\ UNCHANGED <<nerr, arrivedFull, clients, mu, send, nclose, wpc, wmsg, connOut, connClosed,
                   nwrite, dropped, removeCalls, panicked>>

\* broadcast: s.mu.Lock()
BroadcastLock(c) ==
    /\ panicked = NoPanic
    /\ pc[c] = "bc_lock"
    /\ mu = 0
    /\ mu' = c
    /\ pc' = [pc EXCEPT ![c] = "bc_cs"]
    /\ UNCHANGED <<nerr, arrivedFull, clients, msg, send, nclose, wpc, wmsg, connOut, connClosed,
                   nread, nwrite, frames, dropped, removeCalls, panicked>>

\* broadcast: the scan of s.clients under the lock and the deferred Unlock.
\* A send on a closed channel panics, also inside a select with default.
BroadcastBody(c) ==
    /\ panicked = NoPanic
    /\ pc[c] = "bc_cs"
    /\ mu = c
    /\ \A r \in Recipients(c) : SendReady(send[r])
    /\ IF \E r \in Recipients(c) : nclose[r] > 0
         THEN /\ panicked' = "send on closed channel"
              /\ UNCHANGED <<mu, pc, msg, send, dropped>>
         ELSE /\ send' = [r \in Conns |->
                            IF r \in Recipients(c) THEN TrySend(send[r], msg[c])
                            ELSE send[r]]
              /\ dropped' = [r \in Conns |->
                            IF r \in Recipients(c) /\ ~CanSend(send[r])
                              THEN dropped[r] \cup {msg[c]}
                              ELSE dropped[r]]
              /\ msg' = [msg EXCEPT ![c] = NoMsg]
              /\ mu' = 0
              /\ pc' = [pc EXCEPT ![c] = "read"]
              /\ UNCHANGED panicked
    /\ UNCHANGED <<nerr, arrivedFull, clients, nclose, wpc, wmsg, connOut, connClosed,
                   nread, nwrite, frames, removeCalls>>

\* a reader whose deferred function closes the connection before it calls remove
ReadErr_CloseFirst(c) ==
    /\ panicked = NoPanic
    /\ nerr < MaxErrs
    /\ nerr' = nerr + 1
    /\ pc[c] = "read"
    /\ pc' = [pc EXCEPT ![c] = "rm_lock"]
    /\ connClosed' = [connClosed EXCEPT ![c] = TRUE]
    /\ removeCalls' = [removeCalls EXCEPT ![c] = @ + 1]
    /\ UNCHANGED <<arrivedFull, clients, mu, msg, send, nclose, wpc, wmsg, connOut,
                   nread, nwrite, frames, dropped, panicked>>

\* c.conn.ReadMessage() returns an error: reader returns, its deferred
\* function calls s.remove(c)
ReadErr(c) ==
    /\ panicked = NoPanic
    /\ nerr < MaxErrs
    /\ nerr' = nerr + 1
    /\ pc[c] = "read"
    /\ pc' = [pc EXCEPT ![c] = "rm_lock"]
    /\ removeCalls' = [removeCalls EXCEPT ![c] = @ + 1]
    /\ UNCHANGED <<arrivedFull, clients, mu, msg, send, nclose, wpc, wmsg, connOut, connClosed,
                   nread, nwrite, frames, dropped, panicked>>

\* remove: s.mu.Lock()
RemoveLock(c) ==
    /\ panicked = NoPanic
    /\ pc[c] = "rm_lock"
    /\ mu = 0
    /\ mu' = c
    /\ pc' = [pc EXCEPT ![c] = "rm_cs"]
    /\ UNCHANGED <<nerr, arrivedFull, clients, msg, send, nclose, wpc, wmsg, connOut, connClosed,
                   nread, nwrite, frames, dropped, removeCalls, panicked>>

\* remove: delete(s.clients, c); close(c.send); deferred Unlock.
\* close of a closed channel panics.
RemoveBody(c) ==
    /\ panicked = NoPanic
    /\ pc[c] = "rm_cs"
    /\ mu = c
    /\ clients' = Deleted(c)
    /\ IF nclose[c] > 0
         THEN /\ panicked' = "close of closed channel"
              /\ UNCHANGED <<mu, pc, nclose>>
         ELSE /\ nclose' = [nclose EXCEPT ![c] = CloseSend(@)]
              /\ mu' = 0
              /\ pc' = [pc EXCEPT ![c] = "conn_close"]
              /\ UNCHANGED panicked
    /\ UNCHANGED <<nerr, arrivedFull, msg, send, wpc, wmsg, connOut, connClosed,
                   nread, nwrite, frames, dropped, removeCalls>>

\* a teardown that also closes the connections of the sessions still registered
ConnClose_Both(c) ==
    /\ panicked = NoPanic
    /\ pc[c] = "conn_close"
    /\ connClosed' = [d \in Conns |-> connClosed[d] \/ d = c \/ d \in clients]
    /\ pc' = [pc EXCEPT ![c] = "done"]
    /\ UNCHANGED <<nerr, arrivedFull, clients, mu, msg, send, nclose, wpc, wmsg, connOut,
                   nread, nwrite, frames, dropped, removeCalls, panicked>>

\* the rest of reader's deferred function: c.conn.Close()
ConnClose(c) ==
    /\ panicked = NoPanic
    /\ pc[c] = "conn_close"
    /\ connClosed' = [connClosed EXCEPT ![c] = TRUE]
    /\ pc' = [pc EXCEPT ![c] = "done"]
    /\ UNCHANGED <<nerr, arrivedFull, clients, mu, msg, send, nclose, wpc, wmsg, connOut,
                   nread, nwrite, frames, dropped, removeCalls, panicked>>

\* ---------------------------------------------------------------- writer
\* for msg := range c.send: a frame is received and handed to
\* c.conn.WriteMessage, in which the goroutine now is
WriterRecv(c) ==
    /\ panicked = NoPanic
    /\ wpc[c] = "recv"
    /\ send[c] # <<>>
    /\ wmsg' = [wmsg EXCEPT ![c] = RecvFrame(send[c])]
    /\ send' = [send EXCEPT ![c] = Tail(@)]
    /\ connOut' = [connOut EXCEPT ![c] = Append(@, RecvFrame(send[c]))]
    /\ wpc' = [wpc EXCEPT ![c] = "write"]
    /\ UNCHANGED <<nerr, arrivedFull, clients, mu, pc, msg, nclose, connClosed,
                   nread, nwrite, frames, dropped, removeCalls, panicked>>

\* a writer that returns as soon as its queue is closed, buffered frames or not
WriterEnd_OnClose(c) ==
    /\ panicked = NoPanic
    /\ wpc[c] = "recv"
    /\ nclose[c] > 0
    /\ wpc' = [wpc EXCEPT ![c] = "exit"]
    /\ UNCHANGED <<nerr, arrivedFull, clients, mu, pc, msg, send, nclose, wmsg, connOut, connClosed,
                   nread, nwrite, frames, dropped, removeCalls, panicked>>

\* range over a closed and drained channel ends: writer returns
WriterEnd(c) ==
    /\ panicked = NoPanic
    /\ wpc[c] = "recv"
    /\ send[c] = <<>>
    /\ nclose[c] > 0
    /\ wpc' = [wpc EXCEPT ![c] = "exit"]
    /\ UNCHANGED <<nerr, arrivedFull, clients, mu, pc, msg, send, nclose, wmsg, connOut, connClosed,
                   nread, nwrite, frames, dropped, removeCalls, panicked>>

\* c.conn.WriteMessage returns nil (impossible once the connection is closed)
WriteOk(c) ==
    /\ panicked = NoPanic
    /\ wpc[c] = "write"
    /\ ~connClosed[c]
    /\ nwrite < MaxWrites
    /\ nwrite' = nwrite + 1
    /\ wmsg' = [wmsg EXCEPT ![c] = NoMsg]
    /\ wpc' = [wpc EXCEPT ![c] = "recv"]
    /\ UNCHANGED <<nerr, arrivedFull, clients, mu, pc, msg, send, nclose, connOut, connClosed,
                   nread, frames, dropped, removeCalls, panicked>>

\* a writer that tears its session down when a write fails: it takes the
\* lock, deletes the client and closes the queue, as remove does
WriteErr_Teardown(c) ==
    /\ panicked = NoPanic
    /\ \/ connClosed[c] /\ nerr' = nerr
       \/ ~connClosed[c] /\ nerr < MaxErrs /\ nerr' = nerr + 1
    /\ wpc[c] = "write"
    /\ mu = 0
    /\ wmsg' = [wmsg EXCEPT ![c] = NoMsg]
    /\ wpc' = [wpc EXCEPT ![c] = "exit"]
    /\ clients' = clients \ {c}
    /\ removeCalls' = [removeCalls EXCEPT ![c] = @ + 1]
    /\ IF nclose[c] > 0
         THEN panicked' = "close of closed channel" /\ UNCHANGED nclose
         ELSE nclose' = [nclose EXCEPT ![c] = @ + 1] /\ UNCHANGED panicked
    /\ UNCHANGED <<arrivedFull, mu, pc, msg, send, connOut, connClosed,
                   nread, nwrite, frames, dropped>>

\* c.conn.WriteMessage returns an error, as it does on a closed connection
\* and may do on an open one: writer returns
WriteErr(c) ==
    /\ panicked = NoPanic
    /\ \/ connClosed[c] /\ nerr' = nerr
       \/ ~connClosed[c] /\ nerr < MaxErrs /\ nerr' = nerr + 1
    /\ wpc[c] = "write"
    /\ wmsg' = [wmsg EXCEPT ![c] = NoMsg]
    /\ wpc' = [wpc EXCEPT ![c] = "exit"]
    /\ UNCHANGED <<arrivedFull, clients, mu, pc, msg, send, nclose, connOut, connClosed,
                   nread, nwrite, frames, dropped, removeCalls, panicked>>

\* ------------------------------------------------------------------- Next
Next ==
    \E c \in Conns :
        \/ Upgrade(c)
        \/ UpgradeFail(c)
        \/ AddLock(c)
        \/ AddBody(c)
        \/ RejectWrite(c)
        \/ RejectClose(c)
        \/ ReadOk(c)
        \/ ReadErr(c)
        \/ BroadcastLock(c)
        \/ BroadcastBody(c)
        \/ RemoveLock(c)
        \/ RemoveBody(c)
        \/ ConnClose(c)
        \/ WriterRecv(c)
        \/ WriterEnd(c)
        \/ WriteOk(c)
        \/ WriteErr(c)

Spec == Init /\ [][Next]_vars

\* ------------------------------------------------------------ a full room
\* Two states the server reaches from Init when the first two requests are
\* admitted and the peer of connection 1 then sends frames that the peer of
\* connection 2 does not take:
\*   Upgrade(1) AddLock(1) AddBody(1) Upgrade(2) AddLock(2) AddBody(2)
\*   (ReadOk(1) BroadcastLock(1) BroadcastBody(1)) ^ QueueCap
\* leaves the writer of connection 2 not yet scheduled and its queue full;
\*   ... WriterRecv(2) ReadOk(1) BroadcastLock(1) BroadcastBody(1)
\* leaves it inside WriteMessage with the first frame and its queue full again.
\* From either state the peers send MaxReads further frames.
InitFlood ==
    /\ clients = {1, 2}
    /\ mu = 0
    /\ pc = [c \in Conns |-> IF c \in {1, 2} THEN "read" ELSE "start"]
    /\ msg = [c \in Conns |-> NoMsg]
    /\ nclose = [c \in Conns |-> 0]
    /\ connClosed = [c \in Conns |-> FALSE]
    /\ nwrite = 0
    /\ frames = MaxReads
    /\ dropped = [c \in Conns |-> {}]
    /\ removeCalls = [c \in Conns |-> 0]
    /\ arrivedFull = [c \in Conns |-> FALSE]
    /\ nerr = 0
    /\ panicked = NoPanic
    /\ \E stalled \in BOOLEAN :
         LET first == IF stalled THEN 2 ELSE 1 IN
         /\ send = [c \in Conns |->
                     IF c = 2 THEN [i \in 1 .. QueueCap |-> <<1, first + i - 1>>]
                     ELSE <<>>]
         /\ nread = [c \in Conns |-> IF c = 1 THEN first + QueueCap - 1 ELSE 0]
         /\ wpc = [c \in Conns |->
                     IF c = 1 THEN "recv"
                     ELSE IF c = 2 THEN (IF stalled THEN "write" ELSE "recv")
                     ELSE "none"]
         /\ wmsg = [c \in Conns |-> IF c = 2 /\ stalled THEN <<1, 1>> ELSE NoMsg]
         /\ connOut = [c \in Conns |-> IF c = 2 /\ stalled THEN << <<1, 1>> >> ELSE <<>>]

SpecFlood == InitFlood /\ [][Next]_vars

\* ------------------------------------------------------------- scheduling
\* The Go scheduler runs every runnable goroutine and sync.Mutex hands the
\* lock to a waiting goroutine: the steps of handleWS and reader that do not
\* wait for the network are taken.  Nothing is assumed about the peers.
ServerFair ==
    \A c \in Conns :
        /\ WF_vars(AddLock(c)) /\ WF_vars(AddBody(c))
        /\ WF_vars(BroadcastLock(c)) /\ WF_vars(BroadcastBody(c))
        /\ WF_vars(RemoveLock(c)) /\ WF_vars(RemoveBody(c))
        /\ WF_vars(ConnClose(c))

\* The writer goroutine is scheduled too, and a call of WriteMessage
\* returns, with nil or with an error.
WriterFair ==
    \A c \in Conns :
        /\ WF_vars(WriterRecv(c)) /\ WF_vars(WriterEnd(c))
        /\ WF_vars(WriteOk(c) \/ WriteErr(c))

FairFlood == SpecFlood /\ ServerFair

FairSpec == Spec /\ ServerFair /\ WriterFair

\* ------------------------------------------------ the registry by itself
\* The three methods of Server called in any order by goroutines that are
\* not inside one of them, as a test of the registry would call them.
Outside(c) == pc[c] \in {"start", "read", "rej_write", "conn_close"}

\* a call s.add(c)
ApiAdd(c) ==
    /\ panicked = NoPanic
    /\ Outside(c)
    /\ pc' = [pc EXCEPT ![c] = "add_lock"]
    /\ UNCHANGED <<nerr, arrivedFull, clients, mu, msg, send, nclose, wpc, wmsg, connOut, connClosed,
                   nread, nwrite, frames, dropped, removeCalls, panicked>>

\* a call s.remove(c)
ApiRemove(c) ==
    /\ panicked = NoPanic
    /\ Outside(c)
    /\ removeCalls[c] < MaxRemoves
    /\ pc' = [pc EXCEPT ![c] = "rm_lock"]
    /\ removeCalls' = [removeCalls EXCEPT ![c] = @ + 1]
    /\ UNCHANGED <<nerr, arrivedFull, clients, mu, msg, send, nclose, wpc, wmsg, connOut, connClosed,
                   nread, nwrite, frames, dropped, panicked>>

\* a call s.broadcast(c, m) with a fresh frame m
ApiBroadcast(c) ==
    /\ panicked = NoPanic
    /\ Outside(c)
    /\ frames > 0
    /\ frames' = frames - 1
    /\ nread' = [nread EXCEPT ![c] = @ + 1]
    /\ msg' = [msg EXCEPT ![c] = <<c, nread[c] + 1>>]
    /\ pc' = [pc EXCEPT ![c] = "bc_lock"]
    /\ UNCHANGED <<nerr, arrivedFull, clients, mu, send, nclose, wpc, wmsg, connOut, connClosed,
                   nwrite, dropped, removeCalls, panicked>>

NextApi ==
    \E c \in Conns :
        \/ ApiAdd(c)
        \/ ApiRemove(c)
        \/ ApiBroadcast(c)
        \/ AddLock(c)
        \/ AddBody(c)
        \/ BroadcastLock(c)
        \/ BroadcastBody(c)
        \/ RemoveLock(c)
        \/ RemoveBody(c)

SpecApi == Init /\ [][NextApi]_vars

\* ======================================================== the properties
Range(q) == {q[i] : i \in 1 .. Len(q)}

\* the step in which the call s.broadcast(a, msg[a]) scans the registry and returns
BroadcastReturns(a) == pc[a] = "bc_cs" /\ pc'[a] = "read"

\* the connections whose handleWS took the rejection branch
Rejected == {c \in Conns : pc[c] \in {"rej_write", "rej_close", "rejected"}}

\* C1: the registry never holds more than two clients, whatever the
\* interleaving of add, broadcast and remove; two adds that race for the
\* last free slot are never both admitted.
C1_AtMostTwo == Cardinality(clients) <= 2

\* a third request has been refused while two clients are registered
C1_Witness == Cardinality(clients) = 2 /\ Rejected # {}

\* what holds of a connection on the rejection branch of handleWS
C2_RejectedState ==
    \A c \in Rejected :
        /\ c \notin clients
        /\ wpc[c] = "none" /\ nread[c] = 0 /\ removeCalls[c] = 0
        /\ send[c] = <<>> /\ nclose[c] = 0
        /\ connOut[c] = (IF pc[c] = "rej_write" THEN <<>> ELSE <<RoomFull>>)
        /\ connClosed[c] = (pc[c] = "rejected")

\* the add that finds two clients takes the rejection branch; no way back
C2_RejectStep ==
    \A c \in Conns :
        /\ (pc[c] = "add_cs" /\ Cardinality(clients) >= 2 /\ pc'[c] # pc[c])
              => (pc'[c] = "rej_write" /\ clients' = clients)
        /\ (c \in Rejected) => (pc'[c] \in {"rej_write", "rej_close", "rejected"})

\* C2 as stated: a connection that arrives (its Upgrade returns) while two
\* clients are registered is rejected: it never gets a writer or a reader and
\* is never in the registry.  It fails: a client can leave between the
\* arrival and the moment add takes the lock.
C2_ArrivedFullRejected ==
    \A c \in Conns : arrivedFull[c] => (c \notin clients /\ wpc[c] = "none")

\* C2 as amended: an add that examines the registry while two clients are
\* registered returns false and changes nothing; that connection then gets
\* the "room full" frame exactly once, is closed, has no reader and no
\* writer, and is never in the registry.
C2_ThirdRejected == [] C2_RejectedState /\ [][C2_RejectStep]_vars

\* a refused connection has been told and closed while the room is still full
C2_Witness ==
    \E c \in Conns : pc[c] = "rejected" /\ Cardinality(clients) = 2
                     /\ connOut[c] = <<RoomFull>>

\* C3: a call broadcast(a, m) appends m to the queue of b exactly when, at
\* the scan, b is registered, b is not a and b's queue holds fewer than 16
\* frames; every other queue is left as it was.
C3_BroadcastDelivery ==
    [][\A a \in Conns : BroadcastReturns(a) =>
          \A b \in Conns :
              IF b \in clients /\ b # a /\ Len(send[b]) < 16
                THEN send'[b] = Append(send[b], msg[a])
                ELSE send'[b] = send[b]]_vars

\* a broadcast has put its frame into the queue of the other registered
\* client, and into no other queue
C3_Witness ==
    \E a, b \in Conns :
        /\ a # b /\ {a, b} \subseteq clients /\ pc[a] = "read" /\ nread[a] > 0
        /\ send[b] = << <<a, nread[a]>> >>
        /\ \A x \in Conns \ {b} : <<a, nread[a]>> \notin Range(send[x])

\* a broadcast that finds 16 frames in a queue leaves that queue alone
C4_DropStep ==
    \A a \in Conns : BroadcastReturns(a) =>
        \A b \in clients \ {a} :
            Len(send[b]) = 16 => (send'[b] = send[b] /\ msg[a] \notin Range(send'[b]))

\* C4: a queue never holds more than 16 frames; a broadcast to a queue that
\* holds 16 is dropped: the queue keeps the same 16 frames in the same order.
C4_QueueBounded == [](\A c \in Conns : Len(send[c]) <= 16) /\ [][C4_DropStep]_vars

\* the 17th frame has been dropped and the queue still holds the first 16
C4_Witness ==
    \E b \in Conns : dropped[b] # {} /\ Len(send[b]) = 16 /\ b \in clients
                     /\ dropped[b] \cap Range(send[b]) = {}

\* C5: remove is idempotent: a second call remove(c) for the same client
\* does not panic and does not close the client's queue a second time.
C5_RemoveIdempotent ==
    \A c \in Conns :
        removeCalls[c] >= 2 => (panicked # "close of closed channel" /\ nclose[c] <= 1)

\* no panic; no queue closed twice; no registered client with a closed queue
C6_ClosedState ==
    /\ panicked = NoPanic
    /\ \A c \in Conns : nclose[c] <= 1 /\ (c \in clients => nclose[c] = 0)
    /\ \A a \in Conns : pc[a] = "bc_cs" => \A b \in clients \ {a} : nclose[b] = 0

\* the only step that closes a queue is the body of remove, once
C6_CloseStep ==
    \A c \in Conns :
        nclose'[c] # nclose[c] =>
            /\ pc[c] = "rm_cs" /\ pc'[c] = "conn_close"
            /\ nclose[c] = 0 /\ nclose'[c] = 1
            /\ c \notin clients'

\* C6: a queue is closed at most once, only by remove and only after its
\* client has left the registry; a registered client has an open queue and
\* no broadcast ever sends on a closed queue.
C6_CloseOnce == [] C6_ClosedState /\ [][C6_CloseStep]_vars

\* a broadcast by one client scans the registry after the other client's
\* remove has closed that client's queue
C6_Witness ==
    \E a, b \in Conns :
        a # b /\ pc[a] = "bc_cs" /\ nclose[b] = 1 /\ a \in clients

\* the connections that were admitted: writer and reader were started
Admitted == {c \in Conns : wpc[c] # "none"}

\* C7: every payload the writer of x hands to x's connection is a payload
\* that was read from the connection of another client; a frame read from
\* x is never written to x.
C7_NoSelfEcho ==
    \A x \in Admitted :
        \A i \in 1 .. Len(connOut[x]) :
            LET p == connOut[x][i] IN
            /\ p[1] \in Admitted /\ p[1] # x
            /\ p[2] \in 1 .. nread[p[1]]

\* both clients have been written a frame of the other
C7_Witness ==
    \E x, y \in Admitted :
        x # y /\ connOut[x] # <<>> /\ connOut[y] # <<>> /\ nread[x] > 0 /\ nread[y] > 0

\* C8: the frames of sender a written to b are a subsequence of the frames
\* read from a, in the order read: never reordered, never twice, and a
\* frame that broadcast dropped for b is never written to b.
C8_InOrderSubsequence ==
    \A b \in Conns :
        /\ \A i, j \in 1 .. Len(connOut[b]) :
              (i < j /\ connOut[b][i][1] = connOut[b][j][1])
                  => connOut[b][i][2] < connOut[b][j][2]
        /\ \A i \in 1 .. Len(connOut[b]) :
              /\ connOut[b][i][2] <= (IF connOut[b][i][1] \in Conns
                                        THEN nread[connOut[b][i][1]] ELSE 0)
              /\ connOut[b][i] \notin dropped[b]
        /\ dropped[b] \cap Range(send[b]) = {}

\* two frames of one sender have been written in order after a later frame
\* of that sender was dropped
C8_Witness ==
    \E b \in Conns :
        /\ Len(connOut[b]) >= 2 /\ dropped[b] # {}
        /\ connOut[b][1][1] = connOut[b][2][1]
        /\ \A d \in dropped[b] : d[1] = connOut[b][1][1] /\ d[2] > connOut[b][2][2]

\* C9: a broadcast never waits for the recipient: whatever the recipient's
\* writer does (stalled in a write, or gone, its queue full), the sender's
\* call returns with the lock released and reader is back at its next read.
C9_BroadcastReturns ==
    \A c \in Conns : (pc[c] \in {"bc_lock", "bc_cs"}) ~> (pc[c] = "read" /\ mu # c)

\* a broadcast has returned after dropping its frame on the full queue of a
\* client whose writer is inside WriteMessage or has returned
C9_Witness ==
    \E a, b \in Conns :
        /\ a # b /\ pc[a] = "read" /\ <<a, nread[a]>> \in dropped[b]
        /\ Len(send[b]) = QueueCap /\ wpc[b] \in {"write", "exit"}

\* C10: after a read error remove is called, the queue is closed, and the
\* writer of that client returns: it does not wait on its queue for ever.
C10_TeardownEndsWriter ==
    \A c \in Conns :
        (pc[c] = "rm_lock") ~> (c \notin clients /\ nclose[c] = 1 /\ wpc[c] = "exit")

\* a client is torn down and its writer has left the range loop over the
\* closed and drained queue
C10_Witness ==
    \E c \in Conns :
        /\ pc[c] = "done" /\ nclose[c] = 1 /\ wpc[c] = "exit" /\ send[c] = <<>>
        /\ connOut[c] # <<>> /\ nwrite > 0

\* the sessions whose reader has not yet run the body of remove
Active == {c \in Conns : pc[c] \in {"read", "bc_lock", "bc_cs", "rm_lock", "rm_cs"}}

\* the step in which a call s.add(z) examines the registry and returns
AddReturns(z) == pc[z] = "add_cs" /\ pc'[z] # "add_cs"

\* the step in which the body of s.remove(x) runs and returns
RemoveReturns(x) == pc[x] = "rm_cs" /\ pc'[x] = "conn_close"

\* the registry holds exactly the sessions that were admitted and whose
\* remove has not run: a session that is torn down holds no slot
C11_RegistryState ==
    /\ clients = Active
    /\ \A x \in Conns : pc[x] \in {"conn_close", "done"} => x \notin clients

\* remove gives the slot back, and an add that then finds fewer than two
\* sessions admits the new client
C11_SlotStep ==
    /\ \A x \in Conns : RemoveReturns(x) =>
          (x \notin clients' /\ Cardinality(clients') = Cardinality(clients) - 1)
    /\ \A z \in Conns : (AddReturns(z) /\ Cardinality(clients) < 2) =>
          (pc'[z] = "read" /\ clients' = clients \cup {z} /\ wpc'[z] = "recv")

\* C11: when X and Y are registered and X's reader sees a read error, its
\* teardown takes X out of the registry, and the add of a new client Z that
\* then examines the registry is admitted: the room is no longer full.
C11_SlotRelease == [] C11_RegistryState /\ [][C11_SlotStep]_vars

\* X and Y were registered together (Y was handed a frame of X); X is torn
\* down and Z, which did not arrive in a full room, holds X's slot next to Y
C11_Witness ==
    \E x, y, z \in Conns :
        /\ x # y /\ y # z /\ x # z
        /\ pc[x] = "done" /\ clients = {y, z} /\ ~arrivedFull[z]
        /\ <<x, 1>> \in Range(send[y]) \cup Range(connOut[y])

\* C12 as stated: once X is torn down, the server closes the connection of
\* the session Y that is still registered, so that Y's peer reads a close.
\* It fails: nothing in X's teardown touches Y's connection.
C12_PeerSeesClose ==
    \A x, y \in Conns :
        (x # y /\ pc[x] = "done" /\ y \in clients) ~> connClosed[y]

\* a session whose reader is running is registered, its queue is open and
\* the server has not closed its connection, whatever has become of the others
C12_OpenState ==
    \A y \in Conns :
        pc[y] \in {"read", "bc_lock", "bc_cs"} =>
            (~connClosed[y] /\ y \in clients /\ nclose[y] = 0)

\* a connection is closed only by the goroutine that serves it, and a session
\* that is torn down sends nothing more
C12_CloseStep ==
    \A y \in Conns :
        /\ connClosed'[y] # connClosed[y] =>
              (pc[y] \in {"conn_close", "rej_close"} /\ pc'[y] # pc[y])
        /\ pc[y] = "done" => (nread'[y] = nread[y] /\ pc'[y] = "done")

\* C12 as amended: after X's teardown the server keeps Y's connection open:
\* Y stays registered with its queue open and its reader running, its peer
\* reads no close, it only gets no further frame of X.
C12_PeerStaysOpen == [] C12_OpenState /\ [][C12_CloseStep]_vars

\* X is torn down and its connection closed; Y, which was handed a frame of
\* X, is registered, waits in a read, and its connection is open
C12_Witness ==
    \E x, y \in Conns :
        /\ x # y /\ pc[x] = "done" /\ connClosed[x]
        /\ y \in clients /\ pc[y] = "read" /\ ~connClosed[y] /\ nclose[y] = 0
        /\ <<x, 1>> \in Range(connOut[y])

\* the steps by which session x handles an error of its own connection: its
\* reader sees a read error, calls remove and closes the connection, or its
\* writer sees a write error
ErrorStep(x) ==
    \/ pc[x] \in {"read", "rm_lock", "rm_cs", "conn_close"}
         /\ pc'[x] \in {"rm_lock", "rm_cs", "conn_close", "done"} /\ pc'[x] # pc[x]
    \/ wpc[x] = "write" /\ wpc'[x] = "exit"

\* such a step leaves every other session as it was
C13_LocalStep ==
    \A x \in Conns : ErrorStep(x) =>
        \A y \in Conns \ {x} :
            /\ (y \in clients') = (y \in clients)
            /\ nclose'[y] = nclose[y] /\ connClosed'[y] = connClosed[y]
            /\ send'[y] = send[y]
            /\ pc'[y] = pc[y] /\ wpc'[y] = wpc[y] /\ wmsg'[y] = wmsg[y]

\* C13: a read error, a write error or the teardown of session X removes no
\* other session from the registry, closes no other queue or connection,
\* changes no other queue, stops no other reader or writer, and the process
\* does not panic.
C13_ErrorsStayLocal == [](panicked = NoPanic) /\ [][C13_LocalStep]_vars

\* X is torn down while Y is registered with a frame of X still in its open
\* queue, its reader and its writer running
C13_Witness ==
    \E x, y \in Conns :
        /\ x # y /\ pc[x] = "done" /\ nclose[x] = 1
        /\ y \in clients /\ send[y] = << <<x, 1>> >> /\ nclose[y] = 0
        /\ pc[y] = "read" /\ wpc[y] = "recv" /\ ~connClosed[y]

\* the step in which a call s.add(z) returns false
AddFails(z) == pc[z] = "add_cs" /\ pc'[z] = "rej_write"

\* the steps of handleWS on its rejection branch
RejectionStep(z) ==
    \/ pc[z] = "rej_write" /\ pc'[z] = "rej_close"
    \/ pc[z] = "rej_close" /\ pc'[z] = "rejected"

\* a failed add, and the rejection that follows it, change neither the
\* registry nor any queue; add leaves the lock free
C14_FailedAddStep ==
    \A z \in Conns :
        /\ AddFails(z) =>
              (Cardinality(clients) >= 2 /\ mu' = 0 /\ connOut' = connOut
               /\ connClosed' = connClosed)
        /\ (AddFails(z) \/ RejectionStep(z)) =>
              (clients' = clients /\ send' = send /\ nclose' = nclose
               /\ wpc' = wpc /\ wmsg' = wmsg /\ dropped' = dropped
               /\ \A y \in Conns \ {z} : connClosed'[y] = connClosed[y]
                                        /\ connOut'[y] = connOut[y])

\* C14: an add that finds two sessions returns false and has no other
\* effect: the registry and every session's queue, its content and whether
\* it is open, are as before the call.
C14_FailedAddNoEffect == [][C14_FailedAddStep]_vars

\* an add has failed while a registered session had a frame in its queue,
\* and the registry and that queue are as they were
C14_Witness ==
    \E z \in Conns :
        /\ pc[z] = "rej_write" /\ z \notin clients /\ Cardinality(clients) = 2
        /\ \E y \in clients : send[y] # <<>> /\ nclose[y] = 0

\* the goroutines that are inside the body of add, broadcast or remove
InCS == {c \in Conns : pc[c] \in {"add_cs", "bc_cs", "rm_cs"}}

\* the goroutines that are inside a call of the connection: ReadMessage,
\* the WriteMessage of the rejection, Close
InConnCall == {c \in Conns : pc[c] \in {"read", "rej_write", "rej_close", "conn_close"}}

\* at most one goroutine is inside a critical section and it is the holder
\* of the lock; a goroutine inside a call of the connection does not hold it
C15_LockState ==
    /\ Cardinality(InCS) <= 1
    /\ mu \in {0} \cup Conns
    /\ \A c \in Conns : (mu = c) <=> (c \in InCS)
    /\ \A c \in InConnCall : mu # c

\* the registry and the queues are written only by the holder of the lock,
\* in the step that ends its critical section.  (A writer only takes frames
\* out of its own queue, and never takes the lock.)
C15_LockStep ==
    /\ (clients' # clients \/ nclose' # nclose
        \/ \E y \in Conns : Len(send'[y]) > Len(send[y]))
          => (mu \in InCS /\ pc'[mu] \notin {"add_cs", "bc_cs", "rm_cs"} /\ mu' = 0)
    /\ \A c \in Conns : (wpc'[c] # wpc[c] /\ wpc[c] # "none") => mu' = mu

\* C15: add, remove and broadcast exclude one another, so the scan of a
\* broadcast sees no change of the registry, and the lock is never held by
\* a goroutine that is inside a read or a write of a connection, the write
\* of the "room full" frame included.
C15_LockDiscipline == [] C15_LockState /\ [][C15_LockStep]_vars

\* a broadcast scans the registry while one goroutine waits for the lock and
\* another is inside the write of the rejection
C15_Witness ==
    \E a, b, z \in Conns :
        /\ pc[a] = "bc_cs" /\ mu = a
        /\ pc[b] \in {"add_lock", "rm_lock", "bc_lock"}
        /\ pc[z] \in {"rej_write", "read"} /\ z # a /\ z # b

\* the step in which writer returns because WriteMessage returned an error
WriterFails(c) == wpc[c] = "write" /\ wpc'[c] = "exit"

\* the sessions whose writer has returned and whose reader has seen no error
WriterGone == {c \in Conns : wpc[c] = "exit" /\ removeCalls[c] = 0}

\* such a session is registered, its queue open, its connection not closed
\* by the server and its reader running
C16_GoneState ==
    \A c \in WriterGone :
        /\ c \in clients /\ nclose[c] = 0 /\ ~connClosed[c]
        /\ pc[c] \in {"read", "bc_lock", "bc_cs"}

\* the writer's return changes nothing but the writer; afterwards the session
\* still fills a slot, is still sent the frames of the other session, and
\* leaves the registry only in its own remove
C16_GoneStep ==
    \A c \in Conns :
        /\ WriterFails(c) =>
              (clients' = clients /\ nclose' = nclose /\ pc' = pc
               /\ send' = send /\ connClosed' = connClosed /\ removeCalls' = removeCalls)
        /\ c \in WriterGone =>
              /\ \A a \in Conns \ {c} : BroadcastReturns(a) =>
                    send'[c] = (IF Len(send[c]) < 16 THEN Append(send[c], msg[a])
                                ELSE send[c])
              /\ \A z \in Conns : (AddReturns(z) /\ Cardinality(clients) = 2) =>
                    (pc'[z] = "rej_write" /\ clients' = clients)
              /\ c \notin clients' => (pc[c] = "rm_cs" /\ removeCalls[c] = 1)

\* C16: a writer that returns on a failed write leaves its session in the
\* registry with its queue open and its reader running: the session keeps
\* its slot, so that with two registered a new connection is refused, and
\* keeps being sent broadcasts, until its own reader sees a read error.
C16_AsymmetricTeardown == [] C16_GoneState /\ [][C16_GoneStep]_vars

\* the writer of c has returned on a failed write; c is registered, the
\* other session's broadcast is at its scan with room in c's queue, and a
\* new connection waits for add with the room full
C16_Witness ==
    \E c, a, z \in Conns :
        /\ c \in WriterGone /\ c \in clients /\ Cardinality(clients) = 2
        /\ a # c /\ pc[a] = "bc_cs" /\ Len(send[c]) < QueueCap
        /\ pc[z] = "add_lock"

\* an admitted session whose connection the server has closed is out of the
\* registry, its queue is closed, and its reader has returned
C17_ClosedState ==
    \A c \in Admitted :
        connClosed[c] => (c \notin clients /\ nclose[c] = 1 /\ pc[c] = "done")

\* on a read error reader calls remove, which takes the session out of the
\* registry and closes its queue with the connection still open, and only
\* the step after that closes the connection
C17_OrderStep ==
    \A c \in Admitted :
        /\ (pc[c] = "read" /\ pc'[c] \notin {"read", "bc_lock"}) =>
              (pc'[c] = "rm_lock" /\ ~connClosed'[c] /\ c \in clients')
        /\ RemoveReturns(c) =>
              (c \notin clients' /\ nclose'[c] = 1 /\ ~connClosed'[c])
        /\ (connClosed'[c] /\ ~connClosed[c]) =>
              (pc[c] = "conn_close" /\ pc'[c] = "done"
               /\ c \notin clients /\ nclose[c] = 1)

\* C17: on a read error the reader first takes the session out of the
\* registry and closes its queue, and only then closes the connection: once
\* the server has closed the connection of an admitted session, the session
\* is not in the registry and its queue is closed.
C17_TeardownOrder == [] C17_ClosedState /\ [][C17_OrderStep]_vars

\* a session has been removed and its queue closed, its connection closed
\* after that, while the other session is still registered
C17_Witness ==
    \E c \in Admitted :
        /\ connClosed[c] /\ pc[c] = "done" /\ c \notin clients /\ nclose[c] = 1
        /\ removeCalls[c] = 1 /\ clients # {}

\* the connections whose reader has returned
ReaderExited == {c \in Conns : pc[c] \in {"rm_lock", "rm_cs", "conn_close", "done"}}

\* remove has been called once for every session whose reader has returned
\* and never for any other connection; no queue is closed without a call of
\* remove and nothing has panicked
C18_CallsState ==
    /\ panicked = NoPanic
    /\ \A c \in Conns :
          /\ removeCalls[c] = (IF c \in ReaderExited THEN 1 ELSE 0)
          /\ nclose[c] <= removeCalls[c]
          /\ c \in ReaderExited => c \in Admitted
          /\ c \in Rejected \/ pc[c] = "dropped" => removeCalls[c] = 0

\* a call of remove is the reader's step on a read error, the first for its
\* session; no step of a writer is a call of remove
C18_CallStep ==
    \A c \in Conns :
        removeCalls'[c] # removeCalls[c] =>
            /\ pc[c] = "read" /\ pc'[c] = "rm_lock"
            /\ removeCalls[c] = 0 /\ removeCalls'[c] = 1
            /\ wpc' = wpc

\* C18: remove(c) is called at most once for a session: once for each
\* admitted session whose reader has returned, by that reader, and never
\* for a connection that was refused; the writer never calls it, so two
\* calls of remove for one session are unreachable.
C18_RemoveOnce == [] C18_CallsState /\ [][C18_CallStep]_vars

\* a session was removed once by its reader and its writer has returned too,
\* while a refused connection was closed without any call of remove
C18_Witness ==
    \E c, z \in Conns :
        /\ pc[c] = "done" /\ removeCalls[c] = 1 /\ nclose[c] = 1 /\ wpc[c] = "exit"
        /\ pc[z] = "rejected" /\ removeCalls[z] = 0

\* the step in which writer returns
WriterExits(c) == wpc[c] \in {"recv", "write"} /\ wpc'[c] = "exit"

\* a writer at its receive with the queue open and empty can take no step;
\* with frames in the queue, closed or not, it can only receive
C19_WaitState ==
    \A c \in Conns :
        wpc[c] = "recv" =>
            /\ (send[c] = <<>> /\ nclose[c] = 0) =>
                  ~ENABLED (WriterRecv(c) \/ WriterEnd(c) \/ WriteOk(c) \/ WriteErr(c))
            /\ send[c] # <<>> => (ENABLED WriterRecv(c) /\ ~ENABLED WriterEnd(c))

\* writer returns from its receive only on a closed and empty queue, and
\* otherwise only from a write; a receive takes the oldest frame of the
\* queue and hands it to the connection, on a closed queue as on an open one
C19_ExitStep ==
    \A c \in Conns :
        /\ WriterExits(c) =>
              \/ wpc[c] = "recv" /\ send[c] = <<>> /\ nclose[c] > 0
              \/ wpc[c] = "write"
        /\ (wpc[c] = "recv" /\ wpc'[c] = "write") =>
              /\ send[c] # <<>>
              /\ wmsg'[c] = Head(send[c]) /\ send'[c] = Tail(send[c])
              /\ connOut'[c] = Append(connOut[c], Head(send[c]))
        /\ (wpc[c] = "write" /\ wpc'[c] # "write") =>
              (send' = send /\ connOut' = connOut)

\* C19: writer returns only when its queue is closed and empty or when a
\* write fails: after remove has closed the queue the frames still in it
\* are each handed to a write, oldest first, before writer returns on the
\* empty queue, and on an open and empty queue writer waits.
C19_WriterExit == [] C19_WaitState /\ [][C19_ExitStep]_vars

\* remove has closed the queue of a session while several frames are still
\* in it, and its writer, one write done, is at its receive
C19_Witness ==
    \E c \in Conns :
        /\ nclose[c] = 1 /\ c \notin clients /\ Len(send[c]) >= 2
        /\ wpc[c] = "recv" /\ connOut[c] # <<>>

====
